---------------------------- MODULE Spec2Model ----------------------------
(***************************************************************************)
(* Model of the Bellevue traffic simulation core: the SimPy-driven tick    *)
(* loop of TrafficSimulation, the per-vehicle update (IDM acceleration,    *)
(* speed integration, edge transition), the TrafficSignal state machine    *)
(* and the per-edge occupancy lists.                                       *)
(*                                                                         *)
(* Numbers are fixed point.  Lengths are centimetres, times centiseconds,  *)
(* speeds cm/s, accelerations cm/s^2, aggressiveness hundredths, ratios    *)
(* and the congestion level thousandths.  Divisions round down.  Time      *)
(* steps are restricted to values that binary floating point represents    *)
(* exactly (0.5 s, 1 s, 15 s), so that the accumulated signal timers of    *)
(* the program are the exact sums the model computes.                      *)
(*                                                                         *)
(* Specifications:                                                         *)
(*   Spec       short runs at the three time steps, two spawn intents      *)
(*   SpecLong   one long run of a single vehicle at 1 s                    *)
(*   SpecSetup  from construction to the run, with signals added by the    *)
(*              caller and time steps of 15 s, 0 and -1 s                  *)
(*   SpecQuery  runs followed by get_congestion_level / get_edge_speeds    *)
(*   SpecApi    calculate_acceleration and can_vehicle_proceed called on   *)
(*              one vehicle or one signal, outside a run                   *)
(***************************************************************************)
EXTENDS Integers, Sequences, FiniteSets, TLC

VARIABLES
    now,                \* env.now, at the instant of the last processed event
    time_step,          \* TrafficSimulation.time_step
    duration,           \* TrafficSimulation.duration
    status,             \* "constructed" | "running" | "done" (run() returned) |
                        \* "failed" (run() raised) | "idle" (no simulation, direct calls)
    queue,              \* SimPy event queue: pending timeouts of the three periodic processes
    next_eid,           \* SimPy event id counter (orders events of equal time)
    demand,             \* spawn intents the demand provider may still emit
    intents_left,       \* number of spawn intents the demand provider still holds
    signals,            \* SignalController.signals: node -> TrafficSignal
    vehicles,           \* TrafficSimulation.vehicles: id -> Vehicle (the active set)
    next_vehicle_id,    \* TrafficSimulation.next_vehicle_id
    completed_vehicles, \* TrafficSimulation.completed_vehicles
    edge_vehicles,      \* TrafficSimulation.edge_vehicles: edge -> list of vehicle ids
    stats,              \* TrafficSimulation.stats
    snapshots,          \* TrafficSimulation.snapshots
    call,               \* the last call of a method from outside the run: [op, args, result]
    tick_log,           \* history: what each _update_vehicle_position call of the last
                        \* vehicle tick read, in the order of the calls
    edge_progress       \* history: id -> distance driven on the current edge since the
                        \* vehicle was attached to it

vars == <<now, time_step, duration, status, queue, next_eid, demand, intents_left,
          signals, vehicles, next_vehicle_id, completed_vehicles, edge_vehicles,
          stats, snapshots, call, tick_log, edge_progress>>

-----------------------------------------------------------------------------
(* Bounds of the model *)

\* spawn intents of a short run
MaxIntents == 2

\* vehicle-update ticks of a short run
MaxTicks == 6

\* seconds of a long run
LongTicks == 120

\* events processed at one instant of the clock when the time step is 0
MaxZeroStepEvents == 40

\* time after which the vehicle of the single-edge scenario is expected to
\* have completed its 300 m route: 100 s
LongEnough == 10000

-----------------------------------------------------------------------------
(* Arithmetic helpers *)

Min(a, b) == IF a <= b THEN a ELSE b

Max(a, b) == IF a >= b THEN a ELSE b

ClipNothing(x, lo, hi) == x

\* numpy.clip(x, lo, hi)
Clip(x, lo, hi) == Min(Max(x, lo), hi)

RECURSIVE SqrtSearch(_, _, _)
SqrtSearch(n, lo, hi) ==
    IF lo >= hi THEN lo
    ELSE LET mid == (lo + hi + 1) \div 2
         IN  IF mid * mid <= n THEN SqrtSearch(n, mid, hi)
                               ELSE SqrtSearch(n, lo, mid - 1)

\* numpy.sqrt, rounded down
ISqrt(n) == SqrtSearch(n, 0, 2000)

\* numpy.linalg.norm of the difference of two positions, rounded down
Norm(p, q) ==
    SqrtSearch((p[1] - q[1]) * (p[1] - q[1]) + (p[2] - q[2]) * (p[2] - q[2]), 0, 20000)

\* km/h to cm/s: x / 3.6
KphToCms(k) == (k * 1000 + 18) \div 36

RECURSIVE SeqSum(_)
SeqSum(s) == IF s = <<>> THEN 0 ELSE Head(s) + SeqSum(Tail(s))

SetMin(S) == CHOOSE x \in S : \A y \in S : x <= y

\* the ids of a dict of vehicles in insertion order, which is ascending id order
RECURSIVE IdSeq(_)
IdSeq(S) == IF S = {} THEN <<>>
            ELSE LET m == SetMin(S) IN <<m>> \o IdSeq(S \ {m})

\* list.index(x), 0-based; -1 when absent
RECURSIVE IndexFrom(_, _, _)
IndexFrom(s, x, i) ==
    IF i > Len(s) THEN -1
    ELSE IF s[i] = x THEN i - 1 ELSE IndexFrom(s, x, i + 1)

IndexOf(s, x) == IndexFrom(s, x, 1)

\* list.remove(x): removes the first occurrence
RECURSIVE RemoveFirst(_, _)
RemoveFirst(s, x) ==
    IF s = <<>> THEN <<>>
    ELSE IF Head(s) = x THEN Tail(s)
    ELSE <<Head(s)>> \o RemoveFirst(Tail(s), x)

InSeq(s, x) == \E i \in 1..Len(s) : s[i] = x

-----------------------------------------------------------------------------
(* Road network: a small graph in the style of the demo network *)

Nodes == 0..6

\* graph.nodes() iteration order
NodeOrder == <<0, 1, 2, 3, 4, 5, 6>>

\* (u, v, key) -> attributes; length in cm, maxspeed in km/h
EdgeData ==
    ( <<1, 2, 0>> :> [length |-> 3000,  maxspeed |-> 100, lanes |-> 2] ) @@
    ( <<2, 0, 0>> :> [length |-> 1200,  maxspeed |-> 50,  lanes |-> 1] ) @@
    ( <<0, 3, 0>> :> [length |-> 30000, maxspeed |-> 30,  lanes |-> 2] ) @@
    ( <<1, 3, 0>> :> [length |-> 60000, maxspeed |-> 50,  lanes |-> 2] ) @@
    ( <<5, 4, 0>> :> [length |-> 30000, maxspeed |-> 50,  lanes |-> 2] ) @@
    ( <<4, 6, 0>> :> [length |-> 30000, maxspeed |-> 100, lanes |-> 4] )

Edges == DOMAIN EdgeData

\* BellevueRoadNetwork.get_edge_info
GetEdgeInfo(e) ==
    [speed_limit |-> KphToCms(EdgeData[e].maxspeed),
     lanes       |-> EdgeData[e].lanes,
     length      |-> EdgeData[e].length]

RECURSIVE SimplePaths(_, _, _)
SimplePaths(path, d, visited) ==
    LET u == path[Len(path)]
    IN  IF u = d THEN {path}
        ELSE UNION { SimplePaths(Append(path, e[2]), d, visited \cup {e[2]}) :
                     e \in {f \in Edges : f[1] = u /\ f[2] \notin visited} }

RECURSIVE PathLength(_)
PathLength(p) ==
    IF Len(p) < 2 THEN 0
    ELSE EdgeData[<<p[1], p[2], 0>>].length + PathLength(Tail(p))

\* networkx.shortest_path(graph, o, d, weight='length'); [] when there is no path
ShortestPath(o, d) ==
    LET ps == SimplePaths(<<o>>, d, {o})
    IN  IF ps = {} THEN <<>>
        ELSE CHOOSE p \in ps : \A q \in ps : PathLength(p) <= PathLength(q)

\* node attributes (y, x): latitude and longitude, in millionths of a degree
\* from the south-west corner; 0.003 degrees span about 300 m, as in the demo grid
NodeCoordinates ==
    ( 1 :> <<0, 0>> )       @@ ( 2 :> <<0, 300>> )     @@ ( 0 :> <<0, 420>> ) @@
    ( 3 :> <<0, 3420>> )    @@ ( 5 :> <<3000, 0>> )    @@ ( 4 :> <<3000, 3000>> ) @@
    ( 6 :> <<3000, 6000>> )

\* BellevueRoadNetwork.get_node_position
GetNodePosition(n) == NodeCoordinates[n]

RouteTable == [o \in Nodes |-> [d \in Nodes |-> ShortestPath(o, d)]]

\* BellevueRoadNetwork.find_route, on the nodes nearest to origin and destination
FindRoute(o, d) == RouteTable[o][d]

-----------------------------------------------------------------------------
(* Vehicle classes *)

VehicleTypes == {"car", "bus", "truck", "motorcycle"}

MaxSpeed(type) ==
    CASE type = "car"        -> KphToCms(120)
      [] type = "bus"        -> KphToCms(90)
      [] type = "truck"      -> KphToCms(100)
      [] type = "motorcycle" -> KphToCms(140)

MaxAcceleration(type) ==
    CASE type = "car"        -> 250
      [] type = "bus"        -> 120
      [] type = "truck"      -> 80
      [] type = "motorcycle" -> 350

MaxDeceleration(type) ==
    CASE type = "car"        -> 450
      [] type = "bus"        -> 300
      [] type = "truck"      -> 250
      [] type = "motorcycle" -> 500

\* the two ends of the interval the sampled aggressiveness is clipped to, in hundredths
AggressivenessRange(type) ==
    CASE type = "car"        -> {20, 80}
      [] type = "bus"        -> {10, 50}
      [] type = "truck"      -> {10, 40}
      [] type = "motorcycle" -> {40, 95}

\* None, for a vehicle without current edge and for an absent leader; a
\* present optional number x is <<x>>
NoEdge == <<>>

None == <<>>

Some(x) == <<x>>

\* Vehicle.__init__ followed by the subclass constructor
NewVehicle(id, type, spawn_time, origin, route, aggr) ==
    [id |-> id, type |-> type, spawn_time |-> spawn_time, route |-> route,
     position |-> origin, current_edge |-> NoEdge, speed |-> 0, acceleration |-> 0,
     aggressiveness |-> aggr, completed |-> FALSE, waiting_at_signal |-> FALSE,
     total_distance |-> 0, total_time |-> 0, stops |-> 0]

UpdatePositionWithoutTime(veh, new_position, dt) ==
    [veh EXCEPT !.position = new_position,
                !.total_distance = @ + Norm(new_position, veh.position)]

\* Vehicle.update_position: the distance is the norm of the difference of the
\* (latitude, longitude) pairs and is added to stats.total_distance as it is,
\* so total_distance counts millionths of the program's unit
UpdatePosition(veh, new_position, dt) ==
    [veh EXCEPT !.position = new_position,
                !.total_distance = @ + Norm(new_position, veh.position),
                !.total_time = @ + dt]

-----------------------------------------------------------------------------
(* Traffic signals *)

\* SignalController.create_standard_signal: the two phases of a 4-way signal
StandardPhases(major_street_time, minor_street_time) ==
    << [duration |-> major_street_time, yellow_duration |-> 300,
        green_approaches |-> {"north", "south"}],
       [duration |-> minor_street_time, yellow_duration |-> 300,
        green_approaches |-> {"east", "west"}] >>

CycleLengthGreenOnly(phases) ==
    SeqSum([i \in 1..Len(phases) |-> phases[i].duration])

\* the cycle_length attribute that TrafficSignal.__init__ computes
CycleLength(phases) ==
    SeqSum([i \in 1..Len(phases) |-> phases[i].duration + phases[i].yellow_duration])

\* TrafficSignal.__init__
NewSignal(phases) ==
    [phases |-> phases, current_phase_index |-> 0, current_state |-> "red",
     time_in_phase |-> 0, cycle_length |-> CycleLength(phases)]

\* TrafficSimulation._setup_signals: every 5th node of the graph gets a signal,
\* alternating major (60 s / 30 s) and minor (45 s / 25 s) timing
SignalNodeSeq == SelectSeq(NodeOrder, LAMBDA n : IndexOf(NodeOrder, n) % 5 = 0)

SetupSignals ==
    [n \in {SignalNodeSeq[i] : i \in 1..Len(SignalNodeSeq)} |->
        IF IndexOf(SignalNodeSeq, n) % 2 = 0
        THEN NewSignal(StandardPhases(6000, 3000))
        ELSE NewSignal(StandardPhases(4500, 2500))]

\* TrafficSignal.get_current_phase
GetCurrentPhase(sig) == sig.phases[sig.current_phase_index + 1]

\* the all-red clearance interval of TrafficSignal.update, 1.0 s
AllRedClearance == 100

AfterRedSkipsGreen == "yellow"

\* the sub-state that follows RED in TrafficSignal.update
AfterRed == "green"

ElapsedWithoutStep(sig, dt) == sig.time_in_phase

\* self.time_in_phase += time_step, the first statement of TrafficSignal.update
Elapsed(sig, dt) == sig.time_in_phase + dt

NextPhaseIndexStays(sig) == sig.current_phase_index

\* the phase index that TrafficSignal.update sets when YELLOW ends
NextPhaseIndex(sig) == (sig.current_phase_index + 1) % Len(sig.phases)

\* TrafficSignal.update
SignalUpdate(sig, dt) ==
    LET t     == Elapsed(sig, dt)
        phase == GetCurrentPhase(sig)
    IN  CASE sig.current_state = "green" ->
               IF t >= phase.duration
               THEN [sig EXCEPT !.current_state = "yellow", !.time_in_phase = 0]
               ELSE [sig EXCEPT !.time_in_phase = t]
          [] sig.current_state = "yellow" ->
               IF t >= phase.yellow_duration
               THEN [sig EXCEPT !.current_state = "red",
                                !.current_phase_index = NextPhaseIndex(sig),
                                !.time_in_phase = 0]
               ELSE [sig EXCEPT !.time_in_phase = t]
          [] sig.current_state = "red" ->
               IF t >= AllRedClearance
               THEN [sig EXCEPT !.current_state = AfterRed, !.time_in_phase = 0]
               ELSE [sig EXCEPT !.time_in_phase = t]

GetStateIgnoringApproach(sig, approach) == sig.current_state

\* TrafficSignal.get_state_for_approach
GetStateForApproach(sig, approach) ==
    IF approach \in GetCurrentPhase(sig).green_approaches
    THEN sig.current_state
    ELSE "red"

\* TrafficSignal.can_vehicle_proceed; on yellow the vehicle may proceed when
\* distance < speed^2 / (2 * 4.5), compared here without the division
CanVehicleProceed(sig, approach, distance_to_signal, vehicle_speed) ==
    LET state == GetStateForApproach(sig, approach)
    IN  CASE state = "green"  -> TRUE
          [] state = "yellow" -> distance_to_signal * 900 < vehicle_speed * vehicle_speed
          [] OTHER            -> FALSE

-----------------------------------------------------------------------------
(* Vehicle kinematics *)

\* Vehicle.desired_time_headway, 1.5 s, in hundredths
DesiredTimeHeadway == 150

\* Vehicle.min_spacing, 2.0 m
MinSpacing == 200

\* Vehicle.calculate_acceleration.  The result is [err, accel]: err is the
\* ZeroDivisionError of speed / desired_speed when both are the Python float 0.0
\* (a stopped vehicle's speed is the float 0.0 that max(0.0, ...) returns).  A
\* moving vehicle's speed is a numpy float64, so with desired_speed 0.0 the
\* quotient is inf, the acceleration -inf, and the clip returns -max_deceleration.
\* The ratios speed/desired_speed and spacing/distance are cut at 4 and 10: the
\* acceleration is then below -max_deceleration / 0.5 whatever the class, and
\* the final clip gives the same result as for the uncut ratio.
CalculateAcceleration(veh, leader_distance, leader_speed, desired_speed) ==
    LET a == MaxAcceleration(veh.type)
        b == MaxDeceleration(veh.type)
    IN  IF desired_speed = 0
        THEN IF veh.speed = 0
             THEN [err |-> TRUE, accel |-> 0]
             ELSE [err |-> FALSE, accel |-> -b]
        ELSE
          LET r    == Min((veh.speed * 1000) \div desired_speed, 4000)
              r2   == (r * r) \div 1000
              r4   == (r2 * r2) \div 1000
              free == (a * (1000 - r4)) \div 1000
              gap  == IF leader_distance # None /\ leader_speed # None
                      THEN LET ds == MinSpacing + Max(0,
                                       (veh.speed * DesiredTimeHeadway) \div 100
                                       + (veh.speed * (veh.speed - leader_speed[1]))
                                           \div (2 * ISqrt(a * b)))
                               q  == IF leader_distance[1] > 0
                                     THEN Min((ds * 1000) \div leader_distance[1], 10000)
                                     ELSE 0
                           IN  (a * ((q * q) \div 1000)) \div 1000
                      ELSE 0
              acc  == ((free - gap) * (500 + 5 * veh.aggressiveness)) \div 1000
          IN  [err |-> FALSE, accel |-> Clip(acc, -b, a)]

\* the placeholder leader distance of _update_vehicle_position, 50.0 m
LeaderDistance == 5000

\* the list of an edge in the defaultdict edge_vehicles
EdgeList(ev, e) == IF e \in DOMAIN ev THEN ev[e] ELSE <<>>

AppendToFront(ev, e, id) ==
    [f \in (DOMAIN ev) \cup {e} |-> IF f = e THEN <<id>> \o EdgeList(ev, e) ELSE ev[f]]

\* list.append on edge_vehicles[e], creating the list when the key is new
AppendTo(ev, e, id) ==
    [f \in (DOMAIN ev) \cup {e} |-> IF f = e THEN Append(EdgeList(ev, e), id) ELSE ev[f]]

RemoveNothing(ev, e, id) == ev

\* the guarded list.remove on edge_vehicles[e]
RemoveFrom(ev, e, id) ==
    [f \in (DOMAIN ev) \cup {e} |-> IF f = e THEN RemoveFirst(EdgeList(ev, e), id) ELSE ev[f]]

\* the new speed of _update_vehicle_position: max(0.0, speed + acceleration * time_step)
NewSpeed(veh, acceleration, dt) == Max(0, veh.speed + (acceleration * dt) \div 100)

\* the edge-transition test of _update_vehicle_position
ReachedNextNode(distance_traveled, edge_length) == 2 * distance_traveled >= edge_length

MoveToNextEdgeKeepsOld(ev, id, current_edge, new_edge) == AppendTo(ev, new_edge, id)

MoveToNextEdgeNoAttach(ev, id, current_edge, new_edge) == RemoveFrom(ev, current_edge, id)

\* the edge-transition branch of _update_vehicle_position: detach from the
\* current edge and attach to the next edge
MoveToNextEdge(ev, id, current_edge, new_edge) ==
    AppendTo(RemoveFrom(ev, current_edge, id), new_edge, id)

DesiredSpeedUngated(can_proceed, speed_limit) == speed_limit

\* the desired speed of _update_vehicle_position
DesiredSpeed(can_proceed, speed_limit) == IF can_proceed THEN speed_limit ELSE 0

\* what one call of _update_vehicle_position read and decided: the edge the
\* vehicle was on, the answer of the signal, the desired speed, and the leader
\* with its speed
LogEntry(id, edge, can_proceed, desired_speed, leader, leader_speed) ==
    [id |-> id, edge |-> edge, can_proceed |-> can_proceed,
     desired_speed |-> desired_speed, leader |-> leader, leader_speed |-> leader_speed]

\* TrafficSimulation._update_vehicle_position on the state st = [vehicles,
\* edge_vehicles, signals, error, log, progress]; error is set when the update
\* raises; log and progress are the history of the calls
UpdateVehiclePosition(st, id, dt) ==
    LET veh == st.vehicles[id]
    IN  IF Len(veh.route) < 2 \/ veh.current_edge = NoEdge
        THEN [st EXCEPT !.vehicles[id].completed = TRUE,
                        !.log = Append(@, LogEntry(id, veh.current_edge, TRUE, 0,
                                                   None, None))]
        ELSE
          LET current_edge == veh.current_edge
              v            == current_edge[2]
              edge_info    == GetEdgeInfo(current_edge)
              can_proceed  == IF v \in DOMAIN st.signals
                              THEN CanVehicleProceed(st.signals[v], "north",
                                                     edge_info.length \div 2, veh.speed)
                              ELSE TRUE
              lst          == EdgeList(st.edge_vehicles, current_edge)
              vehicle_index == IndexOf(lst, id)
              has_leader   == vehicle_index > 0
              leader_distance == IF has_leader THEN Some(LeaderDistance) ELSE None
              leader_speed == IF has_leader
                              THEN Some(st.vehicles[lst[vehicle_index]].speed)
                              ELSE None
              leader       == IF has_leader THEN Some(lst[vehicle_index]) ELSE None
              desired_speed == DesiredSpeed(can_proceed, edge_info.speed_limit)
              waiting      == ~can_proceed
              res          == CalculateAcceleration(veh, leader_distance, leader_speed,
                                                    desired_speed)
              entry        == LogEntry(id, current_edge, can_proceed, desired_speed,
                                       leader, leader_speed)
          IN  IF res.err
              THEN [st EXCEPT !.vehicles[id].waiting_at_signal = waiting,
                              !.error = TRUE,
                              !.log = Append(@, entry)]
              ELSE
                LET new_speed == NewSpeed(veh, res.accel, dt)
                    distance_traveled == (new_speed * dt) \div 100
                    moved == [veh EXCEPT !.waiting_at_signal = waiting,
                                         !.speed = new_speed,
                                         !.acceleration = res.accel]
                IN  IF ReachedNextNode(distance_traveled, edge_info.length)
                    THEN LET current_route_index == IndexOf(veh.route, v)
                         IN  IF current_route_index >= 0
                                /\ current_route_index < Len(veh.route) - 1
                             THEN LET next_node == veh.route[current_route_index + 2]
                                      new_edge  == <<v, next_node, 0>>
                                  IN  [st EXCEPT
                                         !.edge_vehicles =
                                             MoveToNextEdge(st.edge_vehicles, id,
                                                            current_edge, new_edge),
                                         !.vehicles[id] =
                                             UpdatePosition(
                                                 [moved EXCEPT !.current_edge = new_edge],
                                                 GetNodePosition(v), dt),
                                         !.log = Append(@, entry),
                                         !.progress[id] = 0]
                             ELSE [st EXCEPT
                                     !.edge_vehicles =
                                         RemoveFrom(st.edge_vehicles, current_edge, id),
                                     !.vehicles[id] = [moved EXCEPT !.completed = TRUE],
                                     !.log = Append(@, entry),
                                     !.progress[id] = @ + distance_traveled]
                    ELSE [st EXCEPT !.vehicles[id] =
                                        [moved EXCEPT !.total_time = @ + dt],
                                    !.log = Append(@, entry),
                                    !.progress[id] = @ + distance_traveled]

-----------------------------------------------------------------------------
(* Queries *)

\* TrafficSimulation.get_congestion_level, in thousandths; the capacity
\* (length / 7.0) * lanes is kept in hundredths of a vehicle
GetCongestionLevel(edge) ==
    LET edge_info == GetEdgeInfo(edge)
        capacity  == (edge_info.length * edge_info.lanes) \div 7
        lst       == EdgeList(edge_vehicles, edge)
        occupancy == Len(lst)
        density_ratio == IF capacity > 0 THEN (occupancy * 100000) \div capacity ELSE 0
        avg_speed == SeqSum([i \in 1..Len(lst) |-> vehicles[lst[i]].speed]) \div Len(lst)
        speed_ratio == IF lst # <<>>
                       THEN IF edge_info.speed_limit > 0
                            THEN 1000 - (avg_speed * 1000) \div edge_info.speed_limit
                            ELSE 0
                       ELSE 0
        congestion == (600 * density_ratio + 400 * speed_ratio) \div 1000
    IN  Min(1000, congestion)

\* TrafficSimulation.get_edge_speeds: one entry per key of edge_vehicles, the
\* mean speed of the vehicles of the list, or the speed limit for an empty list
GetEdgeSpeeds ==
    [e \in DOMAIN edge_vehicles |->
        LET lst == edge_vehicles[e]
        IN  IF lst # <<>>
            THEN SeqSum([i \in 1..Len(lst) |-> vehicles[lst[i]].speed]) \div Len(lst)
            ELSE GetEdgeInfo(e).speed_limit]

\* reading self.edge_vehicles[e]: the defaultdict inserts an empty list for a
\* key it does not hold
DefaultDictRead(ev, e) == [f \in (DOMAIN ev) \cup {e} |-> EdgeList(ev, f)]

-----------------------------------------------------------------------------
(* The run: SimPy processes under one virtual clock *)

\* no method has been called from outside the run
NoCall == [op |-> "none", args |-> << >>, result |-> << >>]

\* TrafficSimulation.snapshot_interval, 30.0 s
SnapshotInterval == 3000

Procs == {"signals", "vehicles", "snapshots"}

\* the pending timeout that SimPy processes next: least time, then least event id
Earlier(p, q) ==
    \/ queue[p].time < queue[q].time
    \/ queue[p].time = queue[q].time /\ queue[p].eid <= queue[q].eid

NextProc == CHOOSE p \in Procs : \A q \in Procs : Earlier(p, q)

DueUpToUntil(p) ==
    /\ status = "running"
    /\ NextProc = p
    /\ queue[p].time <= duration
    /\ time_step = 0 => next_eid < MaxZeroStepEvents

\* env.run(until=duration) processes no event at or after the time `duration`
\* (with a time step of 0 the events of one instant never end: the model stops
\* after MaxZeroStepEvents of them)
Due(p) ==
    /\ status = "running"
    /\ NextProc = p
    /\ queue[p].time < duration
    /\ time_step = 0 => next_eid < MaxZeroStepEvents

\* yield self.env.timeout(delay) at the end of a process step
Reschedule(p, delay) ==
    /\ queue' = [queue EXCEPT ![p] = [time |-> queue[p].time + delay, eid |-> next_eid]]
    /\ next_eid' = next_eid + 1
    /\ now' = queue[p].time

NextVehicleIdStuck(vehicle_id) == vehicle_id

\* self.next_vehicle_id += 1, after vehicle_id was taken from it
NextVehicleId(vehicle_id) == vehicle_id + 1

CountSpawnNothing(st) == st

\* self.stats['vehicles_spawned'] += 1
CountSpawn(st) == [st EXCEPT !.vehicles_spawned = @ + 1]

\* TrafficSimulation._spawn_vehicle, for an intent of the demand provider
\* between two clock instants
Spawn ==
    /\ status = "running"
    /\ intents_left > 0
    /\ queue[NextProc].time > now
    /\ \E intent \in demand :
       \E aggr \in AggressivenessRange(intent.type) :
          LET vehicle_id == next_vehicle_id
              route      == FindRoute(intent.o, intent.d)
          IN  /\ next_vehicle_id' = NextVehicleId(vehicle_id)
              /\ intents_left' = intents_left - 1
              /\ IF Len(route) < 2
                 THEN UNCHANGED <<vehicles, edge_vehicles, stats, edge_progress>>
                 ELSE LET first_edge == <<route[1], route[2], 0>>
                          vehicle == [NewVehicle(vehicle_id, intent.type, now,
                                                GetNodePosition(intent.o), route, aggr)
                                        EXCEPT !.current_edge = first_edge]
                      IN  /\ edge_vehicles' = AppendTo(edge_vehicles, first_edge, vehicle_id)
                          /\ vehicles' = [i \in (DOMAIN vehicles) \cup {vehicle_id} |->
                                            IF i = vehicle_id THEN vehicle ELSE vehicles[i]]
                          /\ stats' = CountSpawn(stats)
                          /\ edge_progress' = [i \in (DOMAIN vehicles) \cup {vehicle_id} |->
                                                 IF i = vehicle_id THEN 0 ELSE edge_progress[i]]
    /\ UNCHANGED <<now, time_step, duration, status, queue, next_eid, demand, signals,
                   completed_vehicles, snapshots, call, tick_log>>

\* SignalController.update_all_signals: the signals are updated in the order of
\* the dict, which is the ascending order of the nodes for the signals of this
\* model; acc = [signals, error].  update() adds the time step and then reads
\* the current phase, which raises IndexError when the signal has no phase.
RECURSIVE UpdateAllLoop(_, _, _)
UpdateAllLoop(acc, nodes, dt) ==
    IF nodes = <<>> \/ acc.error THEN acc
    ELSE LET n   == Head(nodes)
             sig == acc.signals[n]
         IN  IF Len(sig.phases) = 0
             THEN [signals |-> [acc.signals EXCEPT ![n].time_in_phase = @ + dt],
                   error   |-> TRUE]
             ELSE UpdateAllLoop([acc EXCEPT !.signals[n] = SignalUpdate(sig, dt)],
                                Tail(nodes), dt)

UpdateAllSignals(sigs, dt) ==
    UpdateAllLoop([signals |-> sigs, error |-> FALSE], IdSeq(DOMAIN sigs), dt)

\* one step of TrafficSimulation._update_signals
UpdateSignals ==
    /\ Due("signals")
    /\ LET res == UpdateAllSignals(signals, time_step)
       IN  /\ signals' = res.signals
           /\ IF res.error
              THEN /\ status' = "failed"
                   /\ now' = queue["signals"].time
                   /\ UNCHANGED <<queue, next_eid>>
              ELSE /\ Reschedule("signals", time_step)
                   /\ UNCHANGED status
    /\ UNCHANGED <<time_step, duration, demand, intents_left, vehicles,
                   next_vehicle_id, completed_vehicles, edge_vehicles, stats, snapshots,
                   call, tick_log, edge_progress>>

\* the loop over list(self.vehicles.items()) of _update_vehicles; acc =
\* [st, to_remove]; an update that raises ends the loop
RECURSIVE UpdateLoop(_, _, _)
UpdateLoop(acc, ids, dt) ==
    IF ids = <<>> \/ acc.st.error THEN acc
    ELSE LET id == Head(ids)
         IN  IF acc.st.vehicles[id].completed
             THEN UpdateLoop([acc EXCEPT !.to_remove = Append(@, id)], Tail(ids), dt)
             ELSE UpdateLoop([acc EXCEPT !.st = UpdateVehiclePosition(acc.st, id, dt)],
                             Tail(ids), dt)

PopNothing(vs, gone) == vs

\* self.vehicles.pop(vehicle_id) for every vehicle to remove
PopAll(vs, gone) == [i \in (DOMAIN vs) \ gone |-> vs[i]]

RetireNothing(done, vs, ids) == done

\* self.completed_vehicles.append(vehicle) for every vehicle to remove
Retire(done, vs, ids) == done \o [i \in 1..Len(ids) |-> vs[ids[i]]]

\* one step of TrafficSimulation._update_vehicles: update every active vehicle,
\* then retire those found completed
UpdateVehicles ==
    /\ Due("vehicles")
    /\ LET st0 == [vehicles |-> vehicles, edge_vehicles |-> edge_vehicles,
                   signals |-> signals, error |-> FALSE, log |-> << >>,
                   progress |-> edge_progress]
       IN  \E acc \in {UpdateLoop([st |-> st0, to_remove |-> <<>>],
                                 IdSeq(DOMAIN vehicles), time_step)} :
           LET gone == {acc.to_remove[i] : i \in 1..Len(acc.to_remove)} IN
           /\ edge_vehicles' = acc.st.edge_vehicles
           /\ tick_log' = acc.st.log
           /\ edge_progress' = [i \in (DOMAIN acc.st.vehicles) \ 
                                     (IF acc.st.error THEN {} ELSE gone) |->
                                    acc.st.progress[i]]
           /\ IF acc.st.error
              THEN /\ vehicles' = acc.st.vehicles
                   /\ status' = "failed"
                   /\ now' = queue["vehicles"].time
                   /\ UNCHANGED <<queue, next_eid, completed_vehicles, stats>>
              ELSE /\ vehicles' = PopAll(acc.st.vehicles, gone)
                   /\ completed_vehicles' = Retire(completed_vehicles, acc.st.vehicles,
                                                   acc.to_remove)
                   /\ stats' = [stats EXCEPT
                          !.vehicles_completed = @ + Len(acc.to_remove),
                          !.total_travel_time = @ + SeqSum(
                              [i \in 1..Len(acc.to_remove) |->
                                  acc.st.vehicles[acc.to_remove[i]].total_time]),
                          !.total_distance = @ + SeqSum(
                              [i \in 1..Len(acc.to_remove) |->
                                  acc.st.vehicles[acc.to_remove[i]].total_distance]),
                          !.total_stops = @ + SeqSum(
                              [i \in 1..Len(acc.to_remove) |->
                                  acc.st.vehicles[acc.to_remove[i]].stops])]
                   /\ Reschedule("vehicles", time_step)
                   /\ UNCHANGED status
    /\ UNCHANGED <<time_step, duration, demand, intents_left, signals, next_vehicle_id,
                   snapshots, call>>

TakeSnapshotOverwriting(snaps, snapshot) == <<snapshot>>

\* self.snapshots.append(snapshot)
TakeSnapshot(snaps, snapshot) == Append(snaps, snapshot)

\* one step of TrafficSimulation._record_snapshots: the snapshot holds copies
\* of the values of every vehicle of self.vehicles, in the order of the dict
RecordSnapshots ==
    /\ Due("snapshots")
    /\ LET ids == IdSeq(DOMAIN vehicles)
       IN  snapshots' = TakeSnapshot(snapshots,
               [time |-> queue["snapshots"].time,
                vehicles |-> [i \in 1..Len(ids) |->
                    [id |-> ids[i], type |-> vehicles[ids[i]].type,
                     position |-> vehicles[ids[i]].position,
                     speed |-> vehicles[ids[i]].speed,
                     waiting |-> vehicles[ids[i]].waiting_at_signal]]])
    /\ Reschedule("snapshots", SnapshotInterval)
    /\ UNCHANGED <<time_step, duration, status, demand, intents_left, signals, vehicles,
                   next_vehicle_id, completed_vehicles, edge_vehicles, stats, call, tick_log, edge_progress>>

\* env.run(until=duration) returns: the clock stands at `duration`
Finish ==
    /\ status = "running"
    /\ queue[NextProc].time >= duration
    /\ status' = "done"
    /\ now' = duration
    /\ UNCHANGED <<time_step, duration, queue, next_eid, demand, intents_left, signals,
                   vehicles, next_vehicle_id, completed_vehicles, edge_vehicles, stats,
                   snapshots, call, tick_log, edge_progress>>

Next == Spawn \/ UpdateSignals \/ UpdateVehicles \/ RecordSnapshots \/ Finish

FirstTimeoutsVehiclesFirst(dt) ==
    [p \in Procs |->
        CASE p = "signals"   -> [time |-> dt, eid |-> 2]
          [] p = "vehicles"  -> [time |-> dt, eid |-> 1]
          [] p = "snapshots" -> [time |-> SnapshotInterval, eid |-> 3]]

\* the first timeout of each periodic process, in the order run() starts them
FirstTimeouts(dt) ==
    [p \in Procs |->
        CASE p = "signals"   -> [time |-> dt, eid |-> 1]
          [] p = "vehicles"  -> [time |-> dt, eid |-> 2]
          [] p = "snapshots" -> [time |-> SnapshotInterval, eid |-> 3]]

\* the state when run() has started its processes, for a configuration
\* [time_step, duration, demand, intents]
InitWith(cfg) ==
    /\ now = 0
    /\ time_step = cfg.time_step
    /\ duration = cfg.duration
    /\ status = "running"
    /\ queue = FirstTimeouts(cfg.time_step)
    /\ next_eid = 4
    /\ demand = cfg.demand
    /\ intents_left = cfg.intents
    /\ signals = SetupSignals
    /\ vehicles = << >>
    /\ next_vehicle_id = 0
    /\ completed_vehicles = << >>
    /\ edge_vehicles = << >>
    /\ stats = [vehicles_spawned |-> 0, vehicles_completed |-> 0, total_travel_time |-> 0,
                total_distance |-> 0, total_stops |-> 0]
    /\ snapshots = << >>
    /\ call = NoCall
    /\ tick_log = << >>
    /\ edge_progress = << >>

Intent(type, o, d) == [type |-> type, o |-> o, d |-> d]

\* short runs: time step 1 s and 0.5 s on the short edges, 15 s on the long ones
ShortConfigs ==
    { [time_step |-> 100, duration |-> 100 * (MaxTicks + 1), intents |-> MaxIntents,
       demand |-> {Intent("motorcycle", 2, 3), Intent("car", 2, 3),
                   Intent("truck", 3, 1), Intent("car", 6, 6)}],
      [time_step |-> 50, duration |-> 50 * (MaxTicks + 1), intents |-> MaxIntents,
       demand |-> {Intent("motorcycle", 1, 3), Intent("car", 2, 3)}],
      [time_step |-> 1500, duration |-> 1500 * (MaxTicks + 1), intents |-> MaxIntents,
       demand |-> {Intent("car", 5, 6), Intent("bus", 5, 6), Intent("motorcycle", 1, 3),
                   Intent("truck", 2, 3)}] }

Init == \E cfg \in ShortConfigs : InitWith(cfg)

Spec == Init /\ [][Next]_vars

\* a long run of one vehicle at the default time step of 1 s
LongConfig ==
    [time_step |-> 100, duration |-> 100 * LongTicks, intents |-> 1,
     demand |-> {Intent("car", 5, 4), Intent("bus", 4, 6), Intent("motorcycle", 1, 3),
                 Intent("car", 2, 3)}]

InitLong == InitWith(LongConfig)

SpecLong == InitLong /\ [][Next]_vars

-----------------------------------------------------------------------------
(* From construction to the run: signals added by the caller, then run() *)

\* phase lists of the signals a caller constructs: none, and one phase of 20 s
CallerPhases ==
    { << >>,
      << [duration |-> 2000, yellow_duration |-> 300, green_approaches |-> {"north"}] >> }

\* nodes of these signals: node 0 replaces a signal of the setup and keeps its
\* place in the dict, node 6 is new and comes last
CallerNodes == {0, 6}

\* signal_controller.add_signal(TrafficSignal(id, node, position, phases)):
\* neither the constructor nor add_signal looks at the phase list
AddSignal ==
    /\ status = "constructed"
    /\ \E n \in CallerNodes, phases \in CallerPhases :
          signals' = [m \in (DOMAIN signals) \cup {n} |->
                         IF m = n THEN NewSignal(phases) ELSE signals[m]]
    /\ UNCHANGED <<now, time_step, duration, status, queue, next_eid, demand,
                   intents_left, vehicles, next_vehicle_id, completed_vehicles,
                   edge_vehicles, stats, snapshots, call, tick_log, edge_progress>>

\* TrafficSimulation.run up to the first timeout of each process.  The time
\* step is used as it was given: env.timeout raises ValueError for a negative
\* delay, which run() lets through; a delay of 0 is accepted.
Run ==
    /\ status = "constructed"
    /\ IF time_step < 0
       THEN /\ status' = "failed"
            /\ UNCHANGED <<queue, next_eid>>
       ELSE /\ status' = "running"
            /\ queue' = FirstTimeouts(time_step)
            /\ next_eid' = 4
    /\ UNCHANGED <<now, time_step, duration, demand, intents_left, signals, vehicles,
                   next_vehicle_id, completed_vehicles, edge_vehicles, stats, snapshots,
                   call, tick_log, edge_progress>>

NextSetup == AddSignal \/ Run \/ Next

\* a simulation after construction and setup(), with a time step of 15 s, 0 or -1 s
SetupConfigs ==
    { [time_step |-> dt, duration |-> 6000, intents |-> 1,
       demand |-> {Intent("car", 5, 6), Intent("truck", 2, 3)}] : dt \in {1500, 0, -100} }

InitSetup ==
    \E cfg \in SetupConfigs :
        /\ now = 0
        /\ time_step = cfg.time_step
        /\ duration = cfg.duration
        /\ status = "constructed"
        /\ queue = [p \in Procs |-> [time |-> 0, eid |-> 0]]
        /\ next_eid = 0
        /\ demand = cfg.demand
        /\ intents_left = cfg.intents
        /\ signals = SetupSignals
        /\ vehicles = << >>
        /\ next_vehicle_id = 0
        /\ completed_vehicles = << >>
        /\ edge_vehicles = << >>
        /\ stats = [vehicles_spawned |-> 0, vehicles_completed |-> 0,
                    total_travel_time |-> 0, total_distance |-> 0, total_stops |-> 0]
        /\ snapshots = << >>
        /\ call = NoCall
        /\ tick_log = << >>
        /\ edge_progress = << >>
    /\ tick_log = << >>
    /\ edge_progress = << >>

SpecSetup == InitSetup /\ [][NextSetup]_vars

-----------------------------------------------------------------------------
(* Queries of the analytics and the visualization, once run() has ended *)

\* simulation.get_congestion_level(edge), whose reading of
\* self.edge_vehicles[edge] goes through the defaultdict
CallGetCongestionLevel ==
    /\ status \in {"done", "failed"}
    /\ \E edge \in Edges :
          /\ call' = [op |-> "get_congestion_level", args |-> [edge |-> edge],
                      result |-> GetCongestionLevel(edge)]
          /\ edge_vehicles' = DefaultDictRead(edge_vehicles, edge)
    /\ UNCHANGED <<now, time_step, duration, status, queue, next_eid, demand,
                   intents_left, signals, vehicles, next_vehicle_id, completed_vehicles,
                   stats, snapshots, tick_log, edge_progress>>

\* simulation.get_edge_speeds()
CallGetEdgeSpeeds ==
    /\ status \in {"done", "failed"}
    /\ call' = [op |-> "get_edge_speeds", args |-> << >>, result |-> GetEdgeSpeeds]
    /\ UNCHANGED <<now, time_step, duration, status, queue, next_eid, demand,
                   intents_left, signals, vehicles, next_vehicle_id, completed_vehicles,
                   edge_vehicles, stats, snapshots, tick_log, edge_progress>>

NextQuery == Next \/ CallGetCongestionLevel \/ CallGetEdgeSpeeds

\* runs of 60 s at a time step of 15 s and of 2 s at 0.5 s, with one vehicle
QueryConfigs ==
    { [time_step |-> 1500, duration |-> 6000, intents |-> 1,
       demand |-> {Intent("car", 5, 6), Intent("truck", 2, 3)}],
      [time_step |-> 50, duration |-> 200, intents |-> 1,
       demand |-> {Intent("car", 2, 3)}] }

InitQuery == \E cfg \in QueryConfigs : InitWith(cfg)

SpecQuery == InitQuery /\ [][NextQuery]_vars

-----------------------------------------------------------------------------
(* Direct calls of the methods of a vehicle and of a signal, outside a run *)

\* speeds of the called vehicle and of a leader: 0, 5, 13.89 and 30 m/s
ApiSpeeds == {0, 500, 1389, 3000}

\* leader gaps: overlapping, touching, 1 cm, 2 m and 50 m
ApiGaps == {-500, 0, 1, 200, 5000}

\* desired speeds: 0, 30 km/h and 50 km/h
ApiDesiredSpeeds == {0, KphToCms(30), KphToCms(50)}

\* distances to the stop line: 0, 6 m, 100 m and 150 m
ApiDistances == {0, 600, 10000, 15000}

Approaches == {"north", "south", "east", "west"}

\* a standard signal in any phase and sub-state
ApiSignals ==
    { (0 :> [NewSignal(StandardPhases(6000, 3000))
               EXCEPT !.current_phase_index = k, !.current_state = state]) :
      k \in {0, 1}, state \in {"green", "yellow", "red"} }

\* a vehicle of any class at any of the speeds
ApiVehicles ==
    UNION { { (0 :> [NewVehicle(0, type, 0, GetNodePosition(5), <<5, 4>>, aggr)
                       EXCEPT !.speed = speed]) :
              aggr \in AggressivenessRange(type), speed \in ApiSpeeds } :
            type \in VehicleTypes }

\* one vehicle or one signal; no run is in progress
InitApi ==
    /\ now = 0
    /\ time_step = 100
    /\ duration = 0
    /\ status = "idle"
    /\ queue = [p \in Procs |-> [time |-> 0, eid |-> 0]]
    /\ next_eid = 0
    /\ demand = {}
    /\ intents_left = 0
    /\ \/ signals \in ApiSignals /\ vehicles = << >>
       \/ signals = << >> /\ vehicles \in ApiVehicles
    /\ next_vehicle_id = 1
    /\ completed_vehicles = << >>
    /\ edge_vehicles = << >>
    /\ stats = [vehicles_spawned |-> 0, vehicles_completed |-> 0, total_travel_time |-> 0,
                total_distance |-> 0, total_stops |-> 0]
    /\ snapshots = << >>
    /\ call = NoCall
    /\ tick_log = << >>
    /\ edge_progress = << >>

\* vehicle.calculate_acceleration(leader_distance, leader_speed, desired_speed)
CallCalculateAcceleration ==
    /\ status = "idle"
    /\ \E id \in DOMAIN vehicles, desired_speed \in ApiDesiredSpeeds,
          leader \in {[distance |-> None, speed |-> None]} \cup
                     {[distance |-> Some(g), speed |-> Some(v)] :
                          g \in ApiGaps, v \in ApiSpeeds} :
          call' = [op     |-> "calculate_acceleration",
                   args   |-> [vehicle |-> id, leader_distance |-> leader.distance,
                               leader_speed |-> leader.speed,
                               desired_speed |-> desired_speed],
                   result |-> CalculateAcceleration(vehicles[id], leader.distance,
                                                    leader.speed, desired_speed)]
    /\ UNCHANGED <<now, time_step, duration, status, queue, next_eid, demand,
                   intents_left, signals, vehicles, next_vehicle_id, completed_vehicles,
                   edge_vehicles, stats, snapshots, tick_log, edge_progress>>

\* signal.can_vehicle_proceed(approach, distance_to_signal, vehicle_speed)
CallCanVehicleProceed ==
    /\ status = "idle"
    /\ \E n \in DOMAIN signals, approach \in Approaches,
          distance \in ApiDistances, speed \in ApiSpeeds :
          call' = [op     |-> "can_vehicle_proceed",
                   args   |-> [signal |-> n, approach |-> approach,
                               distance_to_signal |-> distance, vehicle_speed |-> speed],
                   result |-> CanVehicleProceed(signals[n], approach, distance, speed)]
    /\ UNCHANGED <<now, time_step, duration, status, queue, next_eid, demand,
                   intents_left, signals, vehicles, next_vehicle_id, completed_vehicles,
                   edge_vehicles, stats, snapshots, tick_log, edge_progress>>

NextApi == CallCalculateAcceleration \/ CallCanVehicleProceed

SpecApi == InitApi /\ [][NextApi]_vars

-----------------------------------------------------------------------------
(* Properties *)

ActiveIds == DOMAIN vehicles

\* every vehicle record of the run: the active set and the completed list
AllVehicles ==
    {vehicles[i] : i \in ActiveIds} \cup
    {completed_vehicles[i] : i \in 1..Len(completed_vehicles)}

\* C1: every vehicle, active or completed, has 0 <= speed <= the maximum speed
\* of its class, whatever the speed limits of the edges it drives on.
C1_SpeedWithinClassMax ==
    \A veh \in AllVehicles : 0 <= veh.speed /\ veh.speed <= MaxSpeed(veh.type)

\* C2: every change of a signal's sub-state made by update() is one of
\* GREEN->YELLOW, YELLOW->RED, RED->GREEN.
SubStateStep(from, to) ==
    \/ from = to
    \/ from = "green" /\ to = "yellow"
    \/ from = "yellow" /\ to = "red"
    \/ from = "red" /\ to = "green"

C2_SubStateOrder ==
    [][\A n \in DOMAIN signals :
          SubStateStep(signals[n].current_state, signals'[n].current_state)]_vars

\* a signal that has gone RED -> GREEN -> YELLOW -> RED -> GREEN: it is green
\* in its second phase
C2_Witness ==
    \E n \in DOMAIN signals :
        signals[n].current_phase_index = 1 /\ signals[n].current_state = "green"

\* C3: get_congestion_level(edge) is in [0, 1] for every edge in every state.
C3_CongestionInUnitInterval ==
    \A e \in Edges : 0 <= GetCongestionLevel(e) /\ GetCongestionLevel(e) <= 1000

\* the slots <<edge, index>> of all occupancy lists
Slots ==
    UNION { {<<e, k>> : k \in 1..Len(edge_vehicles[e])} : e \in DOMAIN edge_vehicles }

\* occurrences of a vehicle id over all occupancy lists
TotalOccurrences(id) ==
    Cardinality({p \in Slots : edge_vehicles[p[1]][p[2]] = id})

\* the sum of the lengths of all occupancy lists
TotalOccupancy == Cardinality(Slots)

\* C4: every vehicle appears in at most one edge's occupancy list, and at most
\* once in that list.
C4_AtMostOneListEntry ==
    \A id \in 0..(next_vehicle_id - 1) : TotalOccurrences(id) <= 1

\* two vehicles are in lists, one of them on an edge it moved to
C4_Witness ==
    \E i, j \in ActiveIds :
        /\ i # j
        /\ TotalOccurrences(i) = 1 /\ TotalOccurrences(j) = 1
        /\ vehicles[i].current_edge # <<vehicles[i].route[1], vehicles[i].route[2], 0>>

\* C5 (as claimed): the sum of the lengths of all occupancy lists equals the
\* number of vehicles of the active set that have a current edge.
C5_OccupancyEqualsActiveWithEdge ==
    TotalOccupancy = Cardinality({i \in ActiveIds : vehicles[i].current_edge # NoEdge})

\* C5 (amended): the sum of the lengths of all occupancy lists equals the
\* number of vehicles of the active set that are not marked completed.
C5_OccupancyEqualsActiveNotCompleted ==
    TotalOccupancy = Cardinality({i \in ActiveIds : ~vehicles[i].completed})

\* a vehicle marked completed waits in the active set while another one is on an edge
C5_Witness ==
    /\ \E i \in ActiveIds : vehicles[i].completed
    /\ \E j \in ActiveIds : ~vehicles[j].completed /\ TotalOccupancy >= 1

\* C6 (as claimed): every vehicle of the active set has a current edge and is
\* in the list of exactly that edge; every vehicle in a list is in the active
\* set and has that edge as its current edge.
C6_ActiveIffListed ==
    /\ \A i \in ActiveIds :
          /\ vehicles[i].current_edge # NoEdge
          /\ \A e \in DOMAIN edge_vehicles :
                InSeq(edge_vehicles[e], i) <=> e = vehicles[i].current_edge
          /\ vehicles[i].current_edge \in DOMAIN edge_vehicles
    /\ \A e \in DOMAIN edge_vehicles : \A k \in 1..Len(edge_vehicles[e]) :
          /\ edge_vehicles[e][k] \in ActiveIds
          /\ vehicles[edge_vehicles[e][k]].current_edge = e

\* C6 (amended): the same for the vehicles of the active set that are not
\* marked completed; a vehicle marked completed is in no list.
C6_ActiveNotCompletedIffListed ==
    /\ \A i \in ActiveIds :
          IF vehicles[i].completed
          THEN \A e \in DOMAIN edge_vehicles : ~InSeq(edge_vehicles[e], i)
          ELSE /\ vehicles[i].current_edge # NoEdge
               /\ vehicles[i].current_edge \in DOMAIN edge_vehicles
               /\ \A e \in DOMAIN edge_vehicles :
                     InSeq(edge_vehicles[e], i) <=> e = vehicles[i].current_edge
    /\ \A e \in DOMAIN edge_vehicles : \A k \in 1..Len(edge_vehicles[e]) :
          /\ edge_vehicles[e][k] \in ActiveIds
          /\ ~vehicles[edge_vehicles[e][k]].completed
          /\ vehicles[edge_vehicles[e][k]].current_edge = e

\* a vehicle that moved to the second edge of its route is listed there, and a
\* vehicle marked completed is still in the active set
C6_Witness ==
    /\ \E i \in ActiveIds :
          /\ ~vehicles[i].completed
          /\ vehicles[i].current_edge # <<vehicles[i].route[1], vehicles[i].route[2], 0>>
          /\ InSeq(edge_vehicles[vehicles[i].current_edge], i)
    /\ \E j \in ActiveIds : vehicles[j].completed

\* the signal at the downstream node of vehicle i's edge does not let it proceed
Gated(i) ==
    LET e == vehicles[i].current_edge
    IN  /\ e # NoEdge
        /\ e[2] \in DOMAIN signals
        /\ ~CanVehicleProceed(signals[e[2]], "north", GetEdgeInfo(e).length \div 2,
                              vehicles[i].speed)

\* C7: in a tick in which the downstream signal does not permit a vehicle to
\* proceed, the vehicle does not leave its edge: it is neither attached to the
\* next edge nor marked completed.
C7_GatedVehicleStays ==
    [][\A i \in ActiveIds :
          (~vehicles[i].completed /\ Gated(i)) =>
              /\ i \in DOMAIN vehicles'
              /\ vehicles'[i].current_edge = vehicles[i].current_edge
              /\ ~vehicles'[i].completed]_vars

\* the vehicle update of a tick has run: its timeout was rescheduled or it raised
VehicleTick == queue'["vehicles"] # queue["vehicles"] \/ status' = "failed"

\* C8: while the signal is RED for its approach, each tick of an approaching
\* vehicle completes without an error, leaves its waiting flag true, lowers a
\* positive speed and keeps a speed of 0 at 0.
C8_RedTick ==
    [][\A i \in ActiveIds :
          (/\ VehicleTick
           /\ ~vehicles[i].completed
           /\ vehicles[i].current_edge # NoEdge
           /\ vehicles[i].current_edge[2] \in DOMAIN signals
           /\ GetStateForApproach(signals[vehicles[i].current_edge[2]], "north") = "red")
          => /\ status' # "failed"
             /\ i \in DOMAIN vehicles'
             /\ vehicles'[i].waiting_at_signal
             /\ vehicles[i].speed > 0 => vehicles'[i].speed < vehicles[i].speed
             /\ vehicles[i].speed = 0 => vehicles'[i].speed = 0]_vars

\* C9: a spawn intent whose route cannot be resolved increments the spawned
\* count, leaves the active set and every occupancy list unchanged, and raises
\* no error.
C9_DroppedSpawnCounted ==
    [][(next_vehicle_id' = next_vehicle_id + 1 /\ next_vehicle_id \notin DOMAIN vehicles')
          => /\ stats'.vehicles_spawned = stats.vehicles_spawned + 1
             /\ vehicles' = vehicles
             /\ edge_vehicles' = edge_vehicles
             /\ status' = status]_vars

\* C10: the single car spawned on the route of one 300 m edge with limit
\* 50 km/h (5 -> 4, no signal, no leader, time step 1 s) is completed and in
\* the completed set once the run has lasted long enough.
C10_SingleEdgeRouteCompletes ==
    \A i \in ActiveIds :
        (/\ vehicles[i].type = "car"
         /\ vehicles[i].route = <<5, 4>>
         /\ time_step = 100
         /\ now >= vehicles[i].spawn_time + LongEnough)
        => /\ vehicles[i].completed
           /\ InSeq(completed_vehicles, vehicles[i])

\* the sum of the edge lengths of a route, in the unit of total_distance
\* (millionths of a metre)
RouteLength(route) == PathLength(route) * 10000

\* C11: a completed vehicle's total_distance equals the sum of the lengths of
\* the edges of its route, and the total_distance of the statistics is the sum
\* of these amounts over the retired vehicles.
C11_CompletedDistanceIsRouteLength ==
    /\ \A veh \in AllVehicles :
          veh.completed => veh.total_distance = RouteLength(veh.route)
    /\ stats.total_distance =
          SeqSum([i \in 1..Len(completed_vehicles) |->
                     RouteLength(completed_vehicles[i].route)])

\* C12: calculate_acceleration with a leader at a gap <= 0 and a desired speed
\* > 0 raises no division error and returns -max_deceleration, whatever the
\* speed, the leader speed and the aggressiveness.
C12_NonPositiveGapHardBrakes ==
    (/\ call.op = "calculate_acceleration"
     /\ call.args.leader_distance # None
     /\ call.args.leader_distance[1] <= 0
     /\ call.args.desired_speed > 0)
    => /\ ~call.result.err
       /\ call.result.accel = -MaxDeceleration(vehicles[call.args.vehicle].type)

\* C13: no signal with zero phases is ever registered in the controller: the
\* construction of such a signal fails, so it never reaches update().
C13_NoZeroPhaseSignalRegistered ==
    \A n \in DOMAIN signals : Len(signals[n].phases) > 0

\* C14: a simulation whose time step is <= 0 is rejected before the run
\* starts: run() processes no event (no tick, no signal update, no snapshot)
\* and no vehicle is spawned.
C14_NonPositiveStepRejected ==
    time_step <= 0 =>
        /\ status \in {"constructed", "failed"}
        /\ next_eid = 0
        /\ next_vehicle_id = 0

\* the ids of the completed list, in the order of retirement
CompletedIds == [k \in 1..Len(completed_vehicles) |-> completed_vehicles[k].id]

\* no vehicle is in both sets, none is twice in the completed list, and every
\* vehicle of the completed list is marked completed on the last edge of its
\* route, the edge into the final node
C16_Sets ==
    /\ \A k \in 1..Len(completed_vehicles) :
          LET veh == completed_vehicles[k]
          IN  /\ veh.id \notin ActiveIds
              /\ veh.completed
              /\ veh.current_edge # NoEdge
              /\ veh.current_edge[2] = veh.route[Len(veh.route)]
    /\ \A j, k \in 1..Len(completed_vehicles) : CompletedIds[j] = CompletedIds[k] => j = k

\* C16: a vehicle moves from the active set to the completed set at most once,
\* only from the final node of its route, and never comes back: the completed
\* list only grows at its end, by vehicles that were active and marked
\* completed, and no vehicle is ever in both sets.
C16_RetiredOnceForGood ==
    [][/\ C16_Sets'
       /\ Len(completed_vehicles') >= Len(completed_vehicles)
       /\ \A k \in 1..Len(completed_vehicles') :
             IF k <= Len(completed_vehicles)
             THEN completed_vehicles'[k] = completed_vehicles[k]
             ELSE /\ completed_vehicles'[k].id \in ActiveIds
                  /\ vehicles[completed_vehicles'[k].id].completed]_vars

\* one vehicle has been retired and the run goes on with another one active
C16_Witness ==
    /\ Len(completed_vehicles) >= 1
    /\ \E i \in ActiveIds : ~vehicles[i].completed
    /\ now > completed_vehicles[1].spawn_time + completed_vehicles[1].total_time + 2 * time_step

\* every id in use is below next_vehicle_id, an active vehicle is filed under
\* its own id, and no id is shared inside or across the two sets
C17_Ids ==
    /\ \A i \in ActiveIds : vehicles[i].id = i /\ 0 <= i /\ i < next_vehicle_id
    /\ \A k \in 1..Len(completed_vehicles) :
          /\ 0 <= CompletedIds[k] /\ CompletedIds[k] < next_vehicle_id
          /\ \A j \in 1..Len(completed_vehicles) : CompletedIds[j] = CompletedIds[k] => j = k
          /\ CompletedIds[k] \notin ActiveIds

\* C17: vehicle ids are strictly increasing in spawn order and never reused:
\* every spawn intent, resolved or dropped, takes the id next_vehicle_id and
\* raises it by one, nothing else changes it, a vehicle that enters the active
\* set carries the id just taken, which is greater than every id in use, and
\* no two vehicles of the active and completed sets share an id.
C17_IdsIncreaseNeverReused ==
    [][/\ C17_Ids'
       /\ IF intents_left' # intents_left
          THEN next_vehicle_id' = next_vehicle_id + 1
          ELSE next_vehicle_id' = next_vehicle_id
       /\ \A i \in DOMAIN vehicles' :
             i \notin ActiveIds =>
                /\ i = next_vehicle_id
                /\ \A j \in ActiveIds : j < i
                /\ \A k \in 1..Len(completed_vehicles) : CompletedIds[k] < i]_vars

\* the vehicle with id 0 has been retired and the vehicle with id 1 is active
C17_Witness ==
    /\ Len(completed_vehicles) = 1
    /\ CompletedIds[1] = 0
    /\ 1 \in ActiveIds
    /\ next_vehicle_id = 2

\* C18: can_vehicle_proceed(approach, distance, speed) is true for an approach
\* of the current phase's green set in sub-state GREEN; in sub-state YELLOW it is
\* true exactly when speed^2 / (2 * 4.5) > distance; it is false in sub-state
\* RED, and false for every approach outside the green set.
C18_ProceedTable ==
    call.op = "can_vehicle_proceed" =>
        LET sig      == signals[call.args.signal]
            phase    == sig.phases[sig.current_phase_index + 1]
            in_green == call.args.approach \in phase.green_approaches
            speed    == call.args.vehicle_speed
            distance == call.args.distance_to_signal
        IN  /\ (in_green /\ sig.current_state = "green") => call.result
            /\ (in_green /\ sig.current_state = "yellow") =>
                   (call.result <=> speed * speed > 2 * 450 * distance)
            /\ sig.current_state = "red" => ~call.result
            /\ ~in_green => ~call.result

\* a call on YELLOW for an approach of the green set that may proceed: 13.89 m/s
\* at 6 m from the stop line
C18_Witness ==
    /\ call.op = "can_vehicle_proceed"
    /\ signals[call.args.signal].current_state = "yellow"
    /\ call.args.approach \in GetCurrentPhase(signals[call.args.signal]).green_approaches
    /\ call.args.distance_to_signal > 0
    /\ call.result

\* C19: for a time step > 0 the clock never exceeds the duration and stands at
\* it when run() has returned, and run() does not end before that: no tick is
\* abandoned midway by an error.
C19_RunReachesDuration ==
    time_step > 0 =>
        /\ now <= duration
        /\ status = "done" => now = duration
        /\ status # "failed"

\* C20: a call of get_congestion_level(edge), for an occupied or a never
\* occupied edge, changes nothing but the record of the call: the occupancy
\* index keeps its set of edges, and get_edge_speeds() and
\* get_congestion_level() return afterwards what they returned before.
C20_CongestionQueryIsPure ==
    [][(call' # call /\ call'.op = "get_congestion_level") =>
          /\ edge_vehicles' = edge_vehicles
          /\ DOMAIN edge_vehicles' = DOMAIN edge_vehicles
          /\ GetEdgeSpeeds' = GetEdgeSpeeds
          /\ \A e \in Edges : GetCongestionLevel(e)' = GetCongestionLevel(e)
          /\ UNCHANGED <<now, time_step, duration, status, queue, next_eid, demand,
                         intents_left, signals, vehicles, next_vehicle_id,
                         completed_vehicles, stats, snapshots>>]_vars

\* the snapshots are only appended to, an existing snapshot keeps its content,
\* and the k-th snapshot has time k * snapshot_interval
SnapshotsAppendOnly ==
    [][/\ Len(snapshots') >= Len(snapshots)
       /\ \A k \in 1..Len(snapshots) : snapshots'[k] = snapshots[k]
       /\ \A k \in 1..Len(snapshots') : snapshots'[k].time = k * SnapshotInterval]_vars

SignalTick == queue'["signals"] # queue["signals"]

\* C22: at every tick each registered signal is advanced exactly once, and
\* before any vehicle is updated in that tick: a signal update of time T finds
\* the vehicle tick of T still pending and advances every signal by one
\* update, and a vehicle tick of time T finds the signal update of T done and
\* that of T + time_step pending.
C22_SignalsBeforeVehicles ==
    [][/\ SignalTick =>
             /\ queue["vehicles"].time = queue["signals"].time
             /\ DOMAIN signals' = DOMAIN signals
             /\ \A n \in DOMAIN signals : signals'[n] = SignalUpdate(signals[n], time_step)
       /\ VehicleTick =>
             /\ queue["signals"].time = queue["vehicles"].time + time_step
             /\ signals' = signals]_vars

\* a vehicle tick has just run, for a moving vehicle on the edge into a signal
\* that the signal update of the same tick turned GREEN
C22_Witness ==
    /\ status = "running"
    /\ queue["vehicles"].time = queue["signals"].time
    /\ now = queue["vehicles"].time - time_step
    /\ \E i \in ActiveIds :
          /\ vehicles[i].current_edge # NoEdge
          /\ vehicles[i].current_edge[2] \in DOMAIN signals
          /\ signals[vehicles[i].current_edge[2]].current_state = "green"
          /\ signals[vehicles[i].current_edge[2]].time_in_phase = 0
          /\ vehicles[i].speed > 0

\* the snapshot process has run: its timeout was rescheduled
SnapshotTick == queue'["snapshots"] # queue["snapshots"]

\* C23: a snapshot due at the virtual time of a tick is emitted after that
\* tick's signal and vehicle updates: when the snapshot of time T is taken and
\* T is a tick time, the signal and the vehicle update of T have already run.
C23_SnapshotAfterTick ==
    [][(SnapshotTick /\ time_step > 0 /\ queue["snapshots"].time % time_step = 0) =>
           /\ queue["signals"].time > queue["snapshots"].time
           /\ queue["vehicles"].time > queue["snapshots"].time]_vars

\* the ids of the vehicles a vehicle tick updated, in the order of the updates
UpdatedIds(log) == [k \in 1..Len(log) |-> log[k].id]

\* C24: within one tick every vehicle that is active at the start of the tick
\* and not completed is updated exactly once, in ascending order of vehicle id.
C24_EveryVehicleUpdatedOnce ==
    [][VehicleTick =>
          UpdatedIds(tick_log') = IdSeq({i \in ActiveIds : ~vehicles[i].completed})]_vars

\* the vehicle ahead of vehicle id in the list of edge e, as an optional id
LeaderIn(ev, e, id) ==
    LET lst == EdgeList(ev, e)
    IN  IF IndexOf(lst, id) > 0 THEN Some(lst[IndexOf(lst, id)]) ELSE None

\* C25: each vehicle's update in a tick is computed against the state the
\* other vehicles had at the start of the tick: the leader it reads is its
\* leader of the start of the tick, with the speed the leader had then.
C25_UpdateReadsPreTickState ==
    [][VehicleTick =>
          \A k \in 1..Len(tick_log') :
             LET entry  == tick_log'[k]
                 leader == LeaderIn(edge_vehicles, entry.edge, entry.id)
             IN  /\ entry.leader = leader
                 /\ entry.leader_speed =
                        IF leader = None THEN None ELSE Some(vehicles[leader[1]].speed)]_vars

\* C26: the phase index of a signal changes only in the update that takes the
\* signal from YELLOW to RED, and then to (index + 1) mod n for n phases; any
\* other step leaves it unchanged, and it always stays within 0..n-1.
C26_PhaseIndexAdvancesOnYellowToRed ==
    [][\A n \in (DOMAIN signals) \cap (DOMAIN signals') :
          Len(signals[n].phases) > 0 =>
             /\ signals'[n].current_phase_index \in 0..(Len(signals'[n].phases) - 1)
             /\ signals'[n].current_phase_index =
                    IF signals[n].current_state = "yellow"
                       /\ signals'[n].current_state = "red"
                    THEN (signals[n].current_phase_index + 1) % Len(signals[n].phases)
                    ELSE signals[n].current_phase_index]_vars

\* the signal at node 5 has just gone from YELLOW to RED at the end of its last
\* phase: its index is back at 0
C26_Witness ==
    /\ now > 0
    /\ signals[5].current_state = "red"
    /\ signals[5].time_in_phase = 0
    /\ signals[5].current_phase_index = 0

\* the time a signal stays in a sub-state: the duration of the phase for GREEN,
\* its yellow duration for YELLOW, and 1.0 s for RED
SubStateTime(sig) ==
    CASE sig.current_state = "green"  -> sig.phases[sig.current_phase_index + 1].duration
      [] sig.current_state = "yellow" -> sig.phases[sig.current_phase_index + 1].yellow_duration
      [] sig.current_state = "red"    -> 100

\* the sub-state that follows a sub-state
SubStateAfter(state) ==
    CASE state = "green" -> "yellow" [] state = "yellow" -> "red" [] state = "red" -> "green"

\* C27: a signal leaves GREEN at the first update at which the elapsed time
\* has reached the duration of the phase, YELLOW at the first update at which
\* it has reached the yellow duration, RED at the first update at which it has
\* reached 1.0 s; every change of sub-state sets the elapsed time to 0, and an
\* update that changes nothing only adds the time step to it.
C27_SubStateLeftWhenTimeReached ==
    [][SignalTick =>
          \A n \in DOMAIN signals :
             LET elapsed == signals[n].time_in_phase + time_step
             IN  IF elapsed >= SubStateTime(signals[n])
                 THEN /\ signals'[n].current_state = SubStateAfter(signals[n].current_state)
                      /\ signals'[n].time_in_phase = 0
                 ELSE /\ signals'[n].current_state = signals[n].current_state
                      /\ signals'[n].time_in_phase = elapsed]_vars

\* the signal at node 5 has just left GREEN for YELLOW while the update of the
\* signal at node 0, still GREEN, has only added the time step
C27_Witness ==
    /\ signals[5].current_state = "yellow"
    /\ signals[5].time_in_phase = 0
    /\ signals[0].current_state = "green"
    /\ signals[0].time_in_phase > 0

\* C28: after each update of a vehicle its waiting flag is true exactly when
\* the end node of the edge it occupied at the start of the update has a signal
\* whose can_vehicle_proceed answered false for it, so the flag is cleared by
\* the first update that is permitted; a gated vehicle is given the desired
\* speed 0.
C28_WaitingFlagFollowsSignal ==
    [][VehicleTick =>
          \A k \in 1..Len(tick_log') :
             LET i == tick_log'[k].id
             IN  /\ vehicles'[i].waiting_at_signal = Gated(i)
                 /\ Gated(i) => tick_log'[k].desired_speed = 0]_vars

\* a vehicle that a snapshot shows gated and flagged as waiting was permitted
\* by the last tick: its flag is cleared
C28_Witness ==
    /\ status = "running"
    /\ \E k \in 1..Len(tick_log) :
          /\ tick_log[k].can_proceed
          /\ tick_log[k].id \in ActiveIds
          /\ ~vehicles[tick_log[k].id].waiting_at_signal
          /\ \E j \in 1..Len(snapshots) : \E m \in 1..Len(snapshots[j].vehicles) :
                /\ snapshots[j].vehicles[m].id = tick_log[k].id
                /\ snapshots[j].vehicles[m].waiting

\* the vehicle of a log entry is, after the tick, no longer on the edge it
\* occupied at its update
LeftEdge(entry) ==
    \/ vehicles'[entry.id].completed
    \/ vehicles'[entry.id].current_edge # entry.edge

\* the distance the vehicle of a log entry has driven on its edge, the tick of
\* the entry included
CumulativeDistance(entry) ==
    edge_progress[entry.id] + (vehicles'[entry.id].speed * time_step) \div 100

\* C29: a vehicle leaves its edge in the tick in which its cumulative distance
\* on that edge reaches 50% of the length of the edge, and not before; it is
\* then detached from the list of that edge and attached to the list of the
\* next edge of its route, or, on the last edge, marked completed and in no
\* list.
C29_LeavesEdgeAtHalfLength ==
    [][VehicleTick =>
          \A k \in 1..Len(tick_log') :
             LET entry == tick_log'[k]
                 i     == entry.id
                 veh   == vehicles'[i]
             IN  /\ LeftEdge(entry) <=>
                        2 * CumulativeDistance(entry) >= GetEdgeInfo(entry.edge).length
                 /\ LeftEdge(entry) =>
                        /\ ~InSeq(EdgeList(edge_vehicles', entry.edge), i)
                        /\ IF veh.completed
                           THEN \A e \in DOMAIN edge_vehicles' :
                                   ~InSeq(edge_vehicles'[e], i)
                           ELSE /\ veh.current_edge[1] = entry.edge[2]
                                /\ InSeq(EdgeList(edge_vehicles', veh.current_edge), i)]_vars

\* the elements of the list s that are in the list t, in the order of s
KeptIn(s, t) == SelectSeq(s, LAMBDA x : InSeq(t, x))

\* the elements of the list s that are not in the list t, in the order of s
NotIn(s, t) == SelectSeq(s, LAMBDA x : ~InSeq(t, x))

\* C30: the list of every edge holds its vehicles in the order of their arrival
\* on the edge: a vehicle attached to an edge is put at the back of the list, a
\* detach removes that vehicle alone and keeps the order of the others, and the
\* leader a vehicle reads is a vehicle that was on the edge before it.
C30_EdgeListsInArrivalOrder ==
    [][/\ \A e \in DOMAIN edge_vehicles' :
             LET old == EdgeList(edge_vehicles, e)
                 new == edge_vehicles'[e]
             IN  /\ new = KeptIn(old, new) \o NotIn(new, old)
                 /\ \A k \in 1..Len(old) :
                       (/\ old[k] \in DOMAIN vehicles'
                        /\ vehicles'[old[k]].current_edge = e
                        /\ ~vehicles'[old[k]].completed) => InSeq(new, old[k])
       /\ VehicleTick =>
             \A k \in 1..Len(tick_log') :
                LET entry == tick_log'[k]
                    old   == EdgeList(edge_vehicles, entry.edge)
                IN  entry.leader # None =>
                       /\ IndexOf(old, entry.leader[1]) >= 0
                       /\ IndexOf(old, entry.leader[1]) < IndexOf(old, entry.id)]_vars

\* a vehicle that came from another edge is at the back of a list behind a
\* vehicle that was on the edge before it, and a vehicle of the last tick read
\* a leader
C30_Witness ==
    /\ status = "running"
    /\ \E k \in 1..Len(tick_log) : tick_log[k].leader # None
    /\ \E e \in DOMAIN edge_vehicles :
          /\ Len(edge_vehicles[e]) >= 2
          /\ vehicles[edge_vehicles[e][Len(edge_vehicles[e])]].route[1] # e[1]

\* C31: the list of every edge behaves as a FIFO: the vehicle detached from an
\* edge is always the one at the front of the list of that edge, so that every
\* vehicle that was ahead of it at the start of the tick has left the edge
\* earlier in the same tick.
C31_DetachedVehicleIsAtFront ==
    [][VehicleTick =>
          \A k \in 1..Len(tick_log') :
             LET entry == tick_log'[k]
                 old   == EdgeList(edge_vehicles, entry.edge)
             IN  LeftEdge(entry) =>
                    \A p \in 1..IndexOf(old, entry.id) :
                       \E j \in 1..(k - 1) :
                          /\ tick_log'[j].id = old[p]
                          /\ LeftEdge(tick_log'[j])]_vars

\* C32: a vehicle that is not gated by a signal is given, as the desired speed
\* of its acceleration, the smaller of the speed limit of its current edge and
\* the maximum speed of its class; a gated vehicle is given 0.
C32_DesiredSpeedIsMinOfLimitAndClassMax ==
    [][VehicleTick =>
          \A k \in 1..Len(tick_log') :
             LET entry == tick_log'[k]
             IN  entry.edge # NoEdge =>
                    entry.desired_speed =
                       IF entry.can_proceed
                       THEN Min(GetEdgeInfo(entry.edge).speed_limit,
                                MaxSpeed(vehicles[entry.id].type))
                       ELSE 0]_vars

\* C33: the acceleration stored on a vehicle, active or completed, lies between
\* minus the maximum deceleration and the maximum acceleration of its class,
\* whatever speed, desired speed, leader and aggressiveness its updates had.
C33_AccelerationWithinClassBounds ==
    \A v \in AllVehicles :
       /\ v.acceleration >= -MaxDeceleration(v.type)
       /\ v.acceleration <= MaxAcceleration(v.type)

\* the last tick updated a vehicle behind a leader, and the update of a vehicle
\* far above its desired speed was cut to the maximum deceleration of its class
C33_Witness ==
    /\ status = "running"
    /\ \E k \in 1..Len(tick_log) : tick_log[k].leader # None
    /\ \E k \in 1..Len(tick_log) :
          /\ tick_log[k].id \in ActiveIds
          /\ vehicles[tick_log[k].id].acceleration =
                 -MaxDeceleration(vehicles[tick_log[k].id].type)

\* C34: a vehicle tick never fails: whatever the speed of a vehicle (0
\* included), the answer of its signal and its leader, every update of the tick
\* completes and the run goes on.
C34_VehicleTickNeverFails ==
    [][VehicleTick => status' = "running"]_vars

\* the active vehicles that are marked completed, in ascending order of id
CompletedActive == IdSeq({i \in ActiveIds : vehicles[i].completed})

\* C35: a vehicle marked completed in a tick stays in the active set, in no
\* occupancy list and shown by the snapshots, until the vehicle update of the
\* next tick, which moves it unchanged to the completed set and adds its
\* totals to the statistics; a vehicle marked completed in the last tick of a
\* run is never moved and never counted.
C35_CompletedRetiredByNextTick ==
    [][/\ \A i \in ActiveIds :
             vehicles[i].completed =>
                \A e \in DOMAIN edge_vehicles : ~InSeq(edge_vehicles[e], i)
       /\ IF VehicleTick
          THEN /\ DOMAIN vehicles' = {i \in ActiveIds : ~vehicles[i].completed}
               /\ completed_vehicles' = completed_vehicles \o
                      [k \in 1..Len(CompletedActive) |-> vehicles[CompletedActive[k]]]
               /\ stats'.vehicles_completed =
                      stats.vehicles_completed + Len(CompletedActive)
               /\ stats'.total_travel_time = stats.total_travel_time +
                      SeqSum([k \in 1..Len(CompletedActive) |->
                                 vehicles[CompletedActive[k]].total_time])
          ELSE /\ completed_vehicles' = completed_vehicles
               /\ stats'.vehicles_completed = stats.vehicles_completed
               /\ \A i \in ActiveIds : i \in DOMAIN vehicles'
       /\ SnapshotTick =>
             LET shown == snapshots'[Len(snapshots')].vehicles
             IN  [k \in 1..Len(shown) |-> shown[k].id] = IdSeq(ActiveIds)]_vars

\* C36: the aggregate statistics agree with the completed set at every
\* instant: vehicles_completed is the number of vehicles of completed_vehicles,
\* and total_travel_time, total_distance and total_stops are the sums of
\* total_time, total_distance and stops over those vehicles.
C36_StatisticsAgreeWithCompletedSet ==
    /\ stats.vehicles_completed = Len(completed_vehicles)
    /\ stats.total_travel_time =
          SeqSum([k \in 1..Len(completed_vehicles) |-> completed_vehicles[k].total_time])
    /\ stats.total_distance =
          SeqSum([k \in 1..Len(completed_vehicles) |-> completed_vehicles[k].total_distance])
    /\ stats.total_stops =
          SeqSum([k \in 1..Len(completed_vehicles) |-> completed_vehicles[k].stops])

\* two vehicles with different totals have been retired and counted
C36_Witness ==
    /\ Len(completed_vehicles) = 2
    /\ completed_vehicles[1].total_time # completed_vehicles[2].total_time
    /\ completed_vehicles[1].total_distance > 0
    /\ stats.total_travel_time > 0

\* C37: vehicle conservation: at every instant vehicles_spawned is the number
\* of vehicles of the active set plus the number of vehicles of the completed
\* set, and no vehicle is in both or twice in the completed set.
C37_SpawnedEqualsActivePlusCompleted ==
    /\ stats.vehicles_spawned = Cardinality(ActiveIds) + Len(completed_vehicles)
    /\ \A k \in 1..Len(completed_vehicles) :
          /\ completed_vehicles[k].id \notin ActiveIds
          /\ \A m \in 1..Len(completed_vehicles) :
                completed_vehicles[m].id = completed_vehicles[k].id => m = k

\* of two vehicles spawned and counted, one is active and one was retired
C37_Witness ==
    /\ stats.vehicles_spawned = 2
    /\ Cardinality(ActiveIds) = 1
    /\ Len(completed_vehicles) = 1

\* every signal update, vehicle update and snapshot runs at a time before
\* `duration`, and the vehicle ticks run at the multiples of the time step
EventsBeforeDuration ==
    [][/\ (SignalTick \/ VehicleTick \/ SnapshotTick) => now' < duration
       /\ VehicleTick => now' = now + time_step \/ now' = now]_vars

\* C38: run(until=duration) executes only the events whose time is strictly
\* less than duration: no signal update, vehicle update or snapshot happens at
\* the time duration, so when the time step divides the duration a run that
\* returns has executed the vehicle ticks of step, 2*step, ..., duration - step
\* and holds the tick of the time duration still pending.
C38_NoEventAtDuration ==
    EventsBeforeDuration /\
    []((status = "done" /\ time_step > 0 /\ duration % time_step = 0) =>
          /\ queue["vehicles"].time = duration
          /\ queue["signals"].time = duration
          /\ \A i \in ActiveIds : vehicles[i].total_time <= duration - time_step)

\* the run has returned, and a vehicle spawned before the first tick and never
\* completed was updated in duration/step - 1 ticks
C38_Witness ==
    /\ status = "done"
    /\ duration % time_step = 0
    /\ \E i \in ActiveIds :
          /\ vehicles[i].spawn_time = 0
          /\ vehicles[i].total_time = duration - time_step

\* the time for which the signals have been updated since the start of the run
UpdatedTime == queue["signals"].time - time_step

\* C39: with a time step that divides all the durations, a signal is back at
\* the phase index, sub-state and elapsed time of its start exactly at the
\* multiples of its real period, which is its cycle_length attribute plus 1.0 s
\* of all-red for each phase; its updates being deterministic, every state of
\* the cycle then recurs with that period.
C39_SignalPeriodIsCycleLengthPlusAllRed ==
    \A n \in DOMAIN signals :
       LET sig    == signals[n]
           period == sig.cycle_length + 100 * Len(sig.phases)
       IN  (period % time_step = 0 /\ \A i \in 1..Len(sig.phases) :
               /\ sig.phases[i].duration % time_step = 0
               /\ sig.phases[i].yellow_duration % time_step = 0) =>
              ((/\ sig.current_phase_index = 0
                /\ sig.current_state = "red"
                /\ sig.time_in_phase = 0) <=> UpdatedTime % period = 0)

\* the signal at node 0, with phases of 60 s and 30 s, is back at its start
\* after 98 s of updates
C39_Witness ==
    /\ UpdatedTime = 9800
    /\ signals[0].current_phase_index = 0
    /\ signals[0].current_state = "red"
    /\ signals[0].time_in_phase = 0

\* vehicle i was updated by the step, and its update ran to its end
UpdatedBy(i) ==
    /\ VehicleTick
    /\ \E k \in 1..Len(tick_log') :
          /\ tick_log'[k].id = i
          /\ ~(status' = "failed" /\ k = Len(tick_log'))

\* C40: the total_time of a vehicle is the time step multiplied by the number
\* of its updates that did not complete it: it is 0 at the spawn, every update
\* that leaves the vehicle on its edge or moves it to the next edge adds
\* exactly one time step, the update that completes it adds nothing, and
\* nothing else changes it, up to and including the retirement.
C40_TotalTimeCountsNonCompletingUpdates ==
    [][/\ \A i \in (DOMAIN vehicles') \ ActiveIds : vehicles'[i].total_time = 0
       /\ \A i \in ActiveIds \cap (DOMAIN vehicles') :
             vehicles'[i].total_time = vehicles[i].total_time +
                (IF UpdatedBy(i) /\ ~vehicles'[i].completed THEN time_step ELSE 0)
       /\ \A k \in (Len(completed_vehicles) + 1)..Len(completed_vehicles') :
             /\ completed_vehicles'[k].id \in ActiveIds
             /\ completed_vehicles'[k].total_time =
                    vehicles[completed_vehicles'[k].id].total_time]_vars

\* a retired vehicle that was moved to another edge by one of its updates has
\* the total_time of two time steps
C40_Witness ==
    \E k \in 1..Len(completed_vehicles) :
       /\ completed_vehicles[k].total_time = 2 * time_step
       /\ completed_vehicles[k].total_distance > 0

=============================================================================
